---------------------------- MODULE Spec2Model ----------------------------
(***************************************************************************)
(* Model of the crawl-orchestration core of the scraper:                   *)
(*   - BrowserPool            (utils/selenium_utils.py)                    *)
(*   - CrawlerProgress        (utils/progress.py)                          *)
(*   - DeepCrawler            (utils/deep_crawler.py)                      *)
(*   - deduplicate_results    (utils/deduplicator.py)                      *)
(* Each component has its own specifications (SpecPool, SpecRun, ...)      *)
(* over the variables it owns; the variables of the other components stay  *)
(* at their initial value.                                                 *)
(***************************************************************************)
EXTENDS Integers, Sequences, FiniteSets, TLC

(***************************************************************************)
(* Bounds of the model.                                                    *)
(***************************************************************************)
MaxPoolSize == 1
NumThreads == 3
MaxItems == 3
MaxWorkers == 2
NUrls == 7
MaxDepth == 3
MaxRecords == 3
MaxCallers == 2
MaxMade == 3

VARIABLES
    \* ---- BrowserPool ----
    size,           \* self.size
    pool,           \* self._pool (queue.Queue), a FIFO of handle ids
    all_browsers,   \* self._all_browsers
    initialized,    \* self._initialized
    ipc,            \* position of the thread calling initialize(): "new" |
                    \* "creating" | "done" | "again" (a second call returned)
    created,        \* per create_browser thread: "pending" | "ok" | "failed"
    driver_state,   \* session state of every handle (windows, cookies, storage)
    tpc,            \* per caller thread: position in get_browser
    held,           \* per caller thread: the local `driver` (0 = None)
    \* ---- BrowserPool, close_all and initialize called by several threads ----
    made,           \* number of handles get_driver has returned so far
    destroyed,      \* the handles whose quit() succeeded
    to_create,      \* per thread in initialize: its create_browser threads
                    \* that have not ended
    clpc,           \* position of the thread calling close_all: "idle" |
                    \* "loop" | "clear" | "done"
    close_idx,      \* index of the loop of close_all over self._all_browsers
    \* ---- CrawlerProgress.run_tasks ----
    path,           \* "rich" | "simple" (RICH_AVAILABLE and console)
    max_workers,    \* self.max_workers
    task_result,    \* per item, what task_func does for it
    fstate,         \* per item, the state of its Future
    work_queue,     \* the executor's queue of work items
    worker,         \* per worker thread: the item it runs (0 = idle)
    mpc,            \* position of the thread running run_tasks
    idx,            \* index of the submit loop, then of the cancel loop
    yielded,        \* futures as_completed has already yielded
    results,        \* self.results
    failed_items,   \* self.failed_items
    durations,      \* self.durations
    completed_count,
    success_count,
    fail_count,
    is_interrupted, \* self.is_interrupted
    done_at_interrupt, \* history: items finished with a result when the flag was set
    \* ---- DeepCrawler.crawl ----
    max_depth,      \* self.max_depth
    start_url,      \* the argument of crawl (0 = empty or "n/a")
    anchors,        \* per URL, the <a href> elements of its page, in order
    url_kind,       \* per URL, which of the patterns the code tests it contains
    page_status,    \* per URL, how a GET of it ends
    has_date,       \* per URL, whether _extract_date finds a date on its page
    has_login,      \* per URL, whether its text holds a login indicator
    cpc,            \* position of crawl: "start" | "run" | "done"
    stack,          \* the call stack of _dfs
    visited,        \* the visited set
    result_deadline, \* result["deadline"]: 0 = None, else the page that gave it
    result_apply,   \* result["apply_link"]: 0 = None, else the URL
    apply_from,     \* history: the page on which apply_link was found
    visit_log,      \* history: the (url, depth) of every _dfs call that got past the checks
    fetch_log,      \* history: every GET issued, with its purpose
    expand_count,   \* history: number of calls of _get_next_links
    \* ---- deduplicate_results ----
    records,        \* the argument `results` of the first call
    key_fields,     \* the argument key_fields (given = FALSE for None)
    dpc,            \* "start" | "deduped" | "again"
    unique_results, \* what the call on records returned
    duplicate_count, \* duplicate_count at the end of that call
    unique_again    \* what the call on unique_results returned

poolVars == <<size, pool, all_browsers, initialized, ipc, created,
              driver_state, tpc, held>>

runVars == <<path, max_workers, task_result, fstate, work_queue, worker, mpc,
             idx, yielded, results, failed_items, durations, completed_count,
             success_count, fail_count, is_interrupted, done_at_interrupt>>

crawlVars == <<max_depth, start_url, anchors, url_kind, page_status, has_date,
               has_login, cpc, stack, visited, result_deadline, result_apply,
               apply_from, visit_log, fetch_log, expand_count>>

dedupeVars == <<records, key_fields, dpc, unique_results, duplicate_count,
                unique_again>>

lifeVars == <<made, destroyed, to_create, clpc, close_idx>>

vars == <<poolVars, runVars, crawlVars, dedupeVars, lifeVars>>

\* What the actions of one component leave alone.
notPool == <<runVars, crawlVars, dedupeVars, lifeVars>>
notRun == <<poolVars, crawlVars, dedupeVars, lifeVars>>
notCrawl == <<poolVars, runVars, dedupeVars, lifeVars>>
notDedupe == <<poolVars, runVars, crawlVars, lifeVars>>
notLife == <<runVars, crawlVars, dedupeVars>>

Threads == 1..NumThreads
Handles == 1..MaxPoolSize

(***************************************************************************)
(* The session state of a handle: whether windows beyond the main one are  *)
(* open, whether cookies are stored, whether local storage holds data.     *)
(* A handle as get_driver returns it has one window and neither.           *)
(***************************************************************************)
FreshDriver == [extra_windows |-> FALSE, cookies |-> FALSE, storage |-> FALSE]

DriverStates == [extra_windows : BOOLEAN, cookies : BOOLEAN, storage : BOOLEAN]

RECURSIVE CountIn(_, _)
CountIn(q, h) ==
    IF q = <<>> THEN 0
    ELSE (IF Head(q) = h THEN 1 ELSE 0) + CountIn(Tail(q), h)

SeqToSet(q) == {q[i] : i \in 1..Len(q)}

(***************************************************************************)
(* BrowserPool.initialize: the early return, then one create_browser       *)
(* thread per slot, then the joins and the flag.                           *)
(***************************************************************************)
InitializeStart ==
    /\ ipc = "new"
    /\ ~initialized
    /\ ipc' = "creating"
    /\ UNCHANGED <<size, pool, all_browsers, initialized, created,
                   driver_state, tpc, held>>
    /\ UNCHANGED notPool

\* self._pool.put(driver) of create_browser.
CreatedPutNothing(q, c) == q
CreatedPut(q, c) == Append(q, c)

\* create_browser: get_driver returned; the handle is registered and queued.
CreateBrowser(c) ==
    /\ ipc = "creating"
    /\ c \in 1..size
    /\ created[c] = "pending"
    /\ created' = [created EXCEPT ![c] = "ok"]
    /\ all_browsers' = Append(all_browsers, c)
    /\ pool' = CreatedPut(pool, c)
    /\ driver_state' = [driver_state EXCEPT ![c] = FreshDriver]
    /\ UNCHANGED <<size, initialized, ipc, tpc, held>>
    /\ UNCHANGED notPool

\* create_browser: get_driver raised; the thread dies and adds nothing.
CreateBrowserFails(c) ==
    /\ ipc = "creating"
    /\ c \in 1..size
    /\ created[c] = "pending"
    /\ created' = [created EXCEPT ![c] = "failed"]
    /\ UNCHANGED <<size, pool, all_browsers, initialized, ipc,
                   driver_state, tpc, held>>
    /\ UNCHANGED notPool

InitializeJoin ==
    /\ ipc = "creating"
    /\ \A c \in 1..size : created[c] # "pending"
    /\ initialized' = TRUE
    /\ ipc' = "done"
    /\ UNCHANGED <<size, pool, all_browsers, created, driver_state,
                   tpc, held>>
    /\ UNCHANGED notPool

\* if self._initialized: return
InitializeNeverReturnsEarly(init) == FALSE
InitializeReturnsEarly(init) == init

\* initialize() is called again after the first call has returned: the
\* early return of lines 56-57, or else the creation threads once more.
InitializeAgain ==
    /\ ipc = "done"
    /\ IF InitializeReturnsEarly(initialized)
       THEN /\ ipc' = "again"
            /\ UNCHANGED created
       ELSE /\ ipc' = "creating"
            /\ created' = [c \in Handles |-> "pending"]
    /\ UNCHANGED <<size, pool, all_browsers, initialized, driver_state,
                   tpc, held>>
    /\ UNCHANGED notPool

(***************************************************************************)
(* BrowserPool.get_browser.  The callers are the worker threads of         *)
(* run_tasks, which CUHKSpider.run starts after initialize() has returned, *)
(* so the lazy branch of lines 92-93 is not taken here.  A caller is       *)
(* outside a call ("idle", or where its last call ended: "returned",       *)
(* "raised" by its block, "empty" for queue.Empty), waiting in             *)
(* self._pool.get ("get") or inside its with block ("body").               *)
(***************************************************************************)
Outside == {"idle", "returned", "raised", "empty"}

GetBrowserEnter(t) ==
    /\ tpc[t] \in Outside
    /\ initialized
    /\ tpc' = [tpc EXCEPT ![t] = "get"]
    /\ UNCHANGED <<size, pool, all_browsers, initialized, ipc, created,
                   driver_state, held>>
    /\ UNCHANGED notPool

\* queue.Queue.get: what is left in the queue once its head has been taken.
QueueRestPeek(q) == q
QueueRest(q) == Tail(q)

\* driver = self._pool.get(timeout=timeout) returned a handle; yield driver.
PoolGet(t) ==
    /\ tpc[t] = "get"
    /\ pool # <<>>
    /\ held' = [held EXCEPT ![t] = Head(pool)]
    /\ pool' = QueueRest(pool)
    /\ tpc' = [tpc EXCEPT ![t] = "body"]
    /\ UNCHANGED <<size, all_browsers, initialized, ipc, created,
                   driver_state>>
    /\ UNCHANGED notPool

\* finally: if driver: ... self._pool.put(driver), with driver = None (0)
\* when self._pool.get did not return.
FinallyPutAlways(q, d) == Append(q, d)
FinallyPut(q, d) == IF d # 0 THEN Append(q, d) ELSE q

\* self._pool.get raised queue.Empty: driver is still None, so the finally
\* block puts nothing back and the exception reaches the caller.
PoolGetTimeout(t) ==
    /\ tpc[t] = "get"
    /\ pool = <<>>
    /\ pool' = FinallyPut(pool, held[t])
    /\ tpc' = [tpc EXCEPT ![t] = "empty"]
    /\ UNCHANGED <<size, all_browsers, initialized, ipc, created,
                   driver_state, held>>
    /\ UNCHANGED notPool

(***************************************************************************)
(* The caller's block (CUHKSpider._fetch_details): it loads pages with the *)
(* handle, which may open windows, set cookies and write local storage.    *)
(***************************************************************************)
UseBrowser(t) ==
    /\ tpc[t] = "body"
    /\ \E st \in DriverStates :
          /\ st.extra_windows \/ ~driver_state[held[t]].extra_windows
          /\ st.cookies \/ ~driver_state[held[t]].cookies
          /\ st.storage \/ ~driver_state[held[t]].storage
          /\ st # driver_state[held[t]]
          /\ driver_state' = [driver_state EXCEPT ![held[t]] = st]
    /\ UNCHANGED <<size, pool, all_browsers, initialized, ipc, created,
                   tpc, held>>
    /\ UNCHANGED notPool

(***************************************************************************)
(* The reset of lines 102-114 inside try/except: it closes the extra       *)
(* windows iff `closed` and clears the cookies iff `cleared`; a WebDriver  *)
(* call that raises ends the reset where it stands.  Local storage is not  *)
(* touched by any call of the block.                                       *)
(***************************************************************************)
ResetDriver(st, closed, cleared) ==
    [extra_windows |-> st.extra_windows /\ ~closed,
     cookies |-> st.cookies /\ ~cleared,
     storage |-> st.storage]

\* The ways the reset ends: a call raises before the extra windows are all
\* closed; they are closed and delete_all_cookies raises; or it returns.
ResetEndings == {<<FALSE, FALSE>>, <<TRUE, FALSE>>, <<TRUE, TRUE>>}

\* finally: ... self._pool.put(driver), on either way out of the block.
ExitPutNormalOnly(q, h, how) == IF how = "returned" THEN Append(q, h) ELSE q
ExitPutTwice(q, h, how) == q \o <<h, h>>
ExitPutNever(q, h, how) == q
ExitPut(q, h, how) == Append(q, h)

\* The with block ends, normally or by an exception of the caller's code.
ExitBlock(t, how) ==
    /\ tpc[t] = "body"
    /\ \E o \in ResetEndings :
          driver_state' = [driver_state EXCEPT
                             ![held[t]] = ResetDriver(@, o[1], o[2])]
    /\ pool' = ExitPut(pool, held[t], how)
    /\ held' = [held EXCEPT ![t] = 0]
    /\ tpc' = [tpc EXCEPT ![t] = how]
    /\ UNCHANGED <<size, all_browsers, initialized, ipc, created>>
    /\ UNCHANGED notPool

(***************************************************************************)
(* BrowserPool over its whole life: get_browser initializes lazily,        *)
(* several threads call it, and one thread calls close_all.  A handle is   *)
(* the number of the get_driver call that returned it.  The flag           *)
(* self._initialized is read and written without the lock.                 *)
(***************************************************************************)
Callers == 1..MaxCallers

\* get_browser, line 92: if not self._initialized.
LifeGetBrowser(t) ==
    /\ t \in Callers
    /\ tpc[t] \in Outside
    /\ tpc' = [tpc EXCEPT ![t] = IF initialized THEN "get" ELSE "lazy"]
    /\ UNCHANGED <<size, pool, all_browsers, initialized, ipc, created,
                   driver_state, held>>
    /\ UNCHANGED lifeVars
    /\ UNCHANGED notLife

\* initialize, called by get_browser: it returns at once when the flag is
\* set by now, else it starts `size` create_browser threads.
LifeInitialize(t) ==
    /\ t \in Callers
    /\ tpc[t] = "lazy"
    /\ IF InitializeReturnsEarly(initialized)
       THEN /\ tpc' = [tpc EXCEPT ![t] = "get"]
            /\ UNCHANGED to_create
       ELSE /\ tpc' = [tpc EXCEPT ![t] = "join"]
            /\ to_create' = [to_create EXCEPT ![t] = size]
    /\ UNCHANGED <<size, pool, all_browsers, initialized, ipc, created,
                   driver_state, held>>
    /\ UNCHANGED <<made, destroyed, clpc, close_idx>>
    /\ UNCHANGED notLife

\* create_browser of one of the threads started by t: get_driver returned.
LifeCreateBrowser(t) ==
    /\ t \in Callers
    /\ to_create[t] > 0
    /\ made < MaxMade
    /\ made' = made + 1
    /\ all_browsers' = Append(all_browsers, made + 1)
    /\ pool' = CreatedPut(pool, made + 1)
    /\ to_create' = [to_create EXCEPT ![t] = @ - 1]
    /\ UNCHANGED <<size, initialized, ipc, created, driver_state, tpc, held>>
    /\ UNCHANGED <<destroyed, clpc, close_idx>>
    /\ UNCHANGED notLife

\* create_browser of one of the threads started by t: get_driver raised.
LifeCreateBrowserFails(t) ==
    /\ t \in Callers
    /\ to_create[t] > 0
    /\ to_create' = [to_create EXCEPT ![t] = @ - 1]
    /\ UNCHANGED poolVars
    /\ UNCHANGED <<made, destroyed, clpc, close_idx>>
    /\ UNCHANGED notLife

\* initialize of t: its threads are joined, self._initialized = True, and
\* get_browser goes on to self._pool.get.
LifeInitializeJoin(t) ==
    /\ t \in Callers
    /\ tpc[t] = "join"
    /\ to_create[t] = 0
    /\ initialized' = TRUE
    /\ tpc' = [tpc EXCEPT ![t] = "get"]
    /\ UNCHANGED <<size, pool, all_browsers, ipc, created, driver_state,
                   held>>
    /\ UNCHANGED lifeVars
    /\ UNCHANGED notLife

\* close_all is called: for driver in self._all_browsers.
CloseAllStart ==
    /\ clpc = "idle"
    /\ clpc' = "loop"
    /\ close_idx' = 1
    /\ UNCHANGED poolVars
    /\ UNCHANGED <<made, destroyed, to_create>>
    /\ UNCHANGED notLife

\* close_driver: driver.quit() ends the browser, or raises and the
\* exception is printed and dropped.
QuitOutcomes == {"quit", "raised"}

\* One pass of the loop of close_all, the next element of the list as it
\* is now.
CloseDriver ==
    /\ clpc = "loop"
    /\ close_idx <= Len(all_browsers)
    /\ \E o \in QuitOutcomes :
          destroyed' = IF o = "quit"
                       THEN destroyed \cup {all_browsers[close_idx]}
                       ELSE destroyed
    /\ close_idx' = close_idx + 1
    /\ UNCHANGED poolVars
    /\ UNCHANGED <<made, to_create, clpc>>
    /\ UNCHANGED notLife

\* The loop of close_all finds no further element.
CloseLoopEnd ==
    /\ clpc = "loop"
    /\ close_idx > Len(all_browsers)
    /\ clpc' = "clear"
    /\ UNCHANGED poolVars
    /\ UNCHANGED <<made, destroyed, to_create, close_idx>>
    /\ UNCHANGED notLife

\* self._all_browsers.clear(); self._initialized = False; close_all
\* returns.  self._pool is not touched.
CloseAllReturn ==
    /\ clpc = "clear"
    /\ all_browsers' = <<>>
    /\ initialized' = FALSE
    /\ clpc' = "done"
    /\ UNCHANGED <<size, pool, ipc, created, driver_state, tpc, held>>
    /\ UNCHANGED <<made, destroyed, to_create, close_idx>>
    /\ UNCHANGED notLife

(***************************************************************************)
(* CrawlerProgress.run_tasks                                               *)
(*                                                                         *)
(* An item is its index in `items`.  task_result says what task_func does  *)
(* for the item: it raises, it returns (result, duration), or it returns a *)
(* result whose progress line cannot be formatted (lines 261-266 raise for *)
(* it: a result that is no dict, a name that is no string, a duration that *)
(* is no number).                                                          *)
(***************************************************************************)
TaskResults == {"raises", "ok", "ok_unformattable"}

Items == 1..Len(task_result)

\* ThreadPoolExecutor(max_workers=self.max_workers): its worker threads.
WorkersUnbounded == 1..MaxWorkers
Workers == 1..max_workers

\* executor.submit(task_func, item), one item of the dict comprehension.
Submit ==
    /\ mpc = "submit"
    /\ idx <= Len(task_result)
    /\ fstate' = [fstate EXCEPT ![idx] = "pending"]
    /\ work_queue' = Append(work_queue, idx)
    /\ idx' = idx + 1
    /\ UNCHANGED <<path, max_workers, task_result, worker, mpc, yielded,
                   results, failed_items, durations, completed_count,
                   success_count, fail_count, is_interrupted,
                   done_at_interrupt>>
    /\ UNCHANGED notRun

\* Every item is submitted: for future in as_completed(future_to_item).
StartCollecting ==
    /\ mpc = "submit"
    /\ idx > Len(task_result)
    /\ mpc' = "loop"
    /\ UNCHANGED <<path, max_workers, task_result, fstate, work_queue, worker,
                   idx, yielded, results, failed_items, durations,
                   completed_count, success_count, fail_count, is_interrupted,
                   done_at_interrupt>>
    /\ UNCHANGED notRun

\* A worker thread of the executor takes the next work item, whose future
\* is still pending, and invokes task_func.
WorkerStart(w) ==
    /\ w \in Workers
    /\ worker[w] = 0
    /\ work_queue # <<>>
    /\ fstate[Head(work_queue)] = "pending"
    /\ worker' = [worker EXCEPT ![w] = Head(work_queue)]
    /\ fstate' = [fstate EXCEPT ![Head(work_queue)] = "running"]
    /\ work_queue' = Tail(work_queue)
    /\ UNCHANGED <<path, max_workers, task_result, mpc, idx, yielded, results,
                   failed_items, durations, completed_count, success_count,
                   fail_count, is_interrupted, done_at_interrupt>>
    /\ UNCHANGED notRun

\* A worker thread takes a work item whose future was cancelled: it is
\* dropped without a call of task_func.
WorkerSkip(w) ==
    /\ w \in Workers
    /\ worker[w] = 0
    /\ work_queue # <<>>
    /\ fstate[Head(work_queue)] = "cancelled"
    /\ work_queue' = Tail(work_queue)
    /\ UNCHANGED <<path, max_workers, task_result, fstate, worker, mpc, idx,
                   yielded, results, failed_items, durations, completed_count,
                   success_count, fail_count, is_interrupted,
                   done_at_interrupt>>
    /\ UNCHANGED notRun

\* task_func returns or raises; the future is finished and the worker free.
TaskFinish(w) ==
    /\ w \in Workers
    /\ worker[w] # 0
    /\ fstate' = [fstate EXCEPT ![worker[w]] =
                    IF task_result[worker[w]] = "raises"
                    THEN "finished_exc" ELSE "finished_ok"]
    /\ worker' = [worker EXCEPT ![w] = 0]
    /\ UNCHANGED <<path, max_workers, task_result, work_queue, mpc, idx,
                   yielded, results, failed_items, durations, completed_count,
                   success_count, fail_count, is_interrupted,
                   done_at_interrupt>>
    /\ UNCHANGED notRun

Finished(i) == fstate[i] \in {"finished_ok", "finished_exc"}

\* Whether the code between the append and the end of the try block raises:
\* the progress line of the simple path, lines 261-266.
FormatRaises(p, r) == p = "simple" /\ r = "ok_unformattable"

\* One pass of the collection loop for a future that returned a result
\* (lines 176-191 and 252-266), the except branch included when the
\* progress line raises.
CollectResult(i) ==
    /\ mpc = "loop"
    /\ i \in Items \ yielded
    /\ fstate[i] = "finished_ok"
    /\ ~is_interrupted
    /\ yielded' = yielded \cup {i}
    /\ results' = Append(results, i)
    /\ success_count' = success_count + 1
    /\ durations' = Append(durations, i)
    /\ IF FormatRaises(path, task_result[i])
       THEN /\ completed_count' = completed_count + 2
            /\ fail_count' = fail_count + 1
            /\ failed_items' = Append(failed_items, i)
       ELSE /\ completed_count' = completed_count + 1
            /\ UNCHANGED <<fail_count, failed_items>>
    /\ UNCHANGED <<path, max_workers, task_result, fstate, work_queue, worker,
                   mpc, idx, is_interrupted, done_at_interrupt>>
    /\ UNCHANGED notRun

\* One pass of the collection loop for a future whose task raised
\* (lines 193-208 and 268-276).
CollectFailure(i) ==
    /\ mpc = "loop"
    /\ i \in Items \ yielded
    /\ fstate[i] = "finished_exc"
    /\ ~is_interrupted
    /\ yielded' = yielded \cup {i}
    /\ completed_count' = completed_count + 1
    /\ fail_count' = fail_count + 1
    /\ failed_items' = Append(failed_items, i)
    /\ UNCHANGED <<path, max_workers, task_result, fstate, work_queue, worker,
                   mpc, idx, results, durations, success_count,
                   is_interrupted, done_at_interrupt>>
    /\ UNCHANGED notRun

\* as_completed yields a future and the loop finds the flag set: the future
\* is not collected, the cancel loop starts.
ObserveInterrupt(i) ==
    /\ mpc = "loop"
    /\ i \in Items \ yielded
    /\ Finished(i)
    /\ is_interrupted
    /\ mpc' = "cancel"
    /\ idx' = 1
    /\ UNCHANGED <<path, max_workers, task_result, fstate, work_queue, worker,
                   yielded, results, failed_items, durations, completed_count,
                   success_count, fail_count, is_interrupted,
                   done_at_interrupt>>
    /\ UNCHANGED notRun

\* Future.cancel(): a pending future becomes cancelled, a running or
\* finished one is left as it is.
CancelNothing(st) == st
CancelFuture(st) == IF st = "pending" THEN "cancelled" ELSE st

\* for f in future_to_item: f.cancel(), one future per step.
CancelNext ==
    /\ mpc = "cancel"
    /\ idx <= Len(task_result)
    /\ fstate' = [fstate EXCEPT ![idx] = CancelFuture(@)]
    /\ idx' = idx + 1
    /\ UNCHANGED <<path, max_workers, task_result, work_queue, worker, mpc,
                   yielded, results, failed_items, durations, completed_count,
                   success_count, fail_count, is_interrupted,
                   done_at_interrupt>>
    /\ UNCHANGED notRun

\* break: the with block of the executor is left.
CancelBreak ==
    /\ mpc = "cancel"
    /\ idx > Len(task_result)
    /\ mpc' = "shutdown"
    /\ UNCHANGED <<path, max_workers, task_result, fstate, work_queue, worker,
                   idx, yielded, results, failed_items, durations,
                   completed_count, success_count, fail_count, is_interrupted,
                   done_at_interrupt>>
    /\ UNCHANGED notRun

\* as_completed has yielded every future: the loop ends.
LoopEnd ==
    /\ mpc = "loop"
    /\ yielded = Items
    /\ mpc' = "shutdown"
    /\ UNCHANGED <<path, max_workers, task_result, fstate, work_queue, worker,
                   idx, yielded, results, failed_items, durations,
                   completed_count, success_count, fail_count, is_interrupted,
                   done_at_interrupt>>
    /\ UNCHANGED notRun

\* ThreadPoolExecutor.__exit__ is shutdown(wait=True): the worker threads
\* are joined, which they allow once the queue is drained and no task runs;
\* then the summary is printed and self.results returned.
ShutdownNoWait == TRUE
ShutdownWaited ==
    /\ work_queue = <<>>
    /\ \A w \in Workers : worker[w] = 0

ShutdownReturn ==
    /\ mpc = "shutdown"
    /\ ShutdownWaited
    /\ mpc' = "returned"
    /\ UNCHANGED <<path, max_workers, task_result, fstate, work_queue, worker,
                   idx, yielded, results, failed_items, durations,
                   completed_count, success_count, fail_count, is_interrupted,
                   done_at_interrupt>>
    /\ UNCHANGED notRun

\* _interrupt_handler: SIGINT is delivered while the handler is installed.
\* A second delivery sets the same flag again and changes nothing.
Interrupt ==
    /\ mpc # "returned"
    /\ ~is_interrupted
    /\ is_interrupted' = TRUE
    /\ done_at_interrupt' = {i \in Items : fstate[i] = "finished_ok"}
    /\ UNCHANGED <<path, max_workers, task_result, fstate, work_queue, worker,
                   mpc, idx, yielded, results, failed_items, durations,
                   completed_count, success_count, fail_count>>
    /\ UNCHANGED notRun

(***************************************************************************)
(* run_tasks with a task_func that works with a handle of the pool, as     *)
(* CUHKSpider._fetch_details does: worker thread w of the executor is      *)
(* caller w of get_browser.  The pool was initialized before run_tasks.    *)
(***************************************************************************)
\* _fetch_details reaches `with self.browser_pool.get_browser() as driver`.
TaskGetBrowser(w) ==
    /\ w \in Workers
    /\ worker[w] # 0
    /\ tpc[w] = "idle"
    /\ initialized
    /\ tpc' = [tpc EXCEPT ![w] = "get"]
    /\ UNCHANGED <<size, pool, all_browsers, initialized, ipc, created,
                   driver_state, held>>
    /\ UNCHANGED notPool

\* The with block was left and the handle released: _fetch_details returns
\* (result, duration).
TaskReturn(w) ==
    /\ w \in Workers
    /\ worker[w] # 0
    /\ tpc[w] = "returned"
    /\ fstate' = [fstate EXCEPT ![worker[w]] = "finished_ok"]
    /\ worker' = [worker EXCEPT ![w] = 0]
    /\ tpc' = [tpc EXCEPT ![w] = "idle"]
    /\ UNCHANGED <<size, pool, all_browsers, initialized, ipc, created,
                   driver_state, held>>
    /\ UNCHANGED <<path, max_workers, task_result, work_queue, mpc, idx,
                   yielded, results, failed_items, durations, completed_count,
                   success_count, fail_count, is_interrupted,
                   done_at_interrupt>>
    /\ UNCHANGED <<crawlVars, dedupeVars, lifeVars>>

\* get_browser raised queue.Empty: _fetch_details does not catch it and the
\* future ends with the exception.
TaskRaisesEmpty(w) ==
    /\ w \in Workers
    /\ worker[w] # 0
    /\ tpc[w] = "empty"
    /\ fstate' = [fstate EXCEPT ![worker[w]] = "finished_exc"]
    /\ worker' = [worker EXCEPT ![w] = 0]
    /\ tpc' = [tpc EXCEPT ![w] = "idle"]
    /\ UNCHANGED <<size, pool, all_browsers, initialized, ipc, created,
                   driver_state, held>>
    /\ UNCHANGED <<path, max_workers, task_result, work_queue, mpc, idx,
                   yielded, results, failed_items, durations, completed_count,
                   success_count, fail_count, is_interrupted,
                   done_at_interrupt>>
    /\ UNCHANGED <<crawlVars, dedupeVars, lifeVars>>

(***************************************************************************)
(* DeepCrawler                                                             *)
(*                                                                         *)
(* A URL is a number of 1..NUrls; 0 stands for a href that names no page   *)
(* (mailto:, tel:, javascript:).  url_kind says which of the substrings    *)
(* the code looks for the URL contains:                                    *)
(*   "howto"    "how-to-apply"                                             *)
(*   "applying" "/applying" or "/admissions"                               *)
(*   "appproc"  "application-process"                                      *)
(*   "pdf"      "pdf"                                                      *)
(* An anchor is its target and whether its text contains a keyword of      *)
(* KEYWORDS_FOLLOW and of KEYWORDS_APPLY.                                  *)
(***************************************************************************)
FanOut == 5

Urls == 1..NUrls

NextUrl(u) == (u % NUrls) + 1

Anchor(to, follow, apply) == [to |-> to, follow |-> follow, apply |-> apply]

\* Pages the crawls are run on.  A navigation page linking to every page,
\* from page 2 on and to page 1 last.
FanPage == [k \in 1..NUrls |-> Anchor(NextUrl(k), TRUE, FALSE)]

\* A page with an "Apply now" link, the same link again, a mailto link, a
\* link without keyword, a "Login" link and a link back to the start.
MixPage(u) ==
    << Anchor(NextUrl(u), TRUE, TRUE),
       Anchor(NextUrl(u), TRUE, FALSE),
       Anchor(0, TRUE, TRUE),
       Anchor(1, FALSE, FALSE),
       Anchor(NextUrl(NextUrl(u)), FALSE, TRUE),
       Anchor(1, TRUE, FALSE) >>

\* A page linking back to the start and to itself, with a "Login" link.
BackPage(u) ==
    << Anchor(1, TRUE, FALSE),
       Anchor(u, TRUE, FALSE),
       Anchor(NextUrl(u), FALSE, TRUE) >>

\* A page whose only link with a keyword is a "How to Apply" link to the next
\* page: the text holds "how to apply" of KEYWORDS_FOLLOW and "apply" of
\* KEYWORDS_APPLY.
HowToPage(u) ==
    << Anchor(1, FALSE, FALSE),
       Anchor(NextUrl(u), TRUE, TRUE) >>

\* A page with an "Apply" link to every page and no link to follow.
ApplyPage == [k \in 1..NUrls |-> Anchor(NextUrl(k), FALSE, TRUE)]

\* The pages that vary are 1, 2 and 3; every other page is a BackPage.
PageChoices(u) ==
    IF u = 3 THEN {<<>>, MixPage(u)}
    ELSE IF u = 1 THEN {<<>>, FanPage, MixPage(u), HowToPage(u), ApplyPage}
    ELSE {<<>>, FanPage, MixPage(u), HowToPage(u)}

\* The URLs that vary are 2 and 3; every other URL contains no pattern.
KindChoices(u) ==
    IF u = 2 THEN {"plain", "howto", "appproc"} ELSE {"plain", "applying", "pdf"}

\* Every page answers 200, or page 2 cannot be reached, or page 3 answers
\* with an error status.
StatusChoices ==
    { [u \in Urls |-> "ok"],
      [u \in Urls |-> IF u = 2 THEN "unreachable" ELSE "ok"],
      [u \in Urls |-> IF u = 3 THEN "error_status" ELSE "ok"] }

DateChoices == { {}, {1}, {3} }

LoginChoices == { {}, {3}, Urls }

(***************************************************************************)
(* _get_soup: a document only for an answer with status 200.               *)
(***************************************************************************)
GetSoupAlways(u) == TRUE
GetSoupOk(u) == page_status[u] = "ok"

(***************************************************************************)
(* _validate_page_content: the URL patterns are refused without a GET;     *)
(* otherwise the text of whatever answer arrives is searched, and a GET    *)
(* that raises gives False.                                                *)
(***************************************************************************)
ValidateFetches(u) == url_kind[u] \notin {"howto", "appproc"}

ValidateAcceptsAny(u) == TRUE
ValidateAccepts(u) ==
    /\ ValidateFetches(u)
    /\ page_status[u] # "unreachable"
    /\ has_login[u]

(***************************************************************************)
(* _extract_info_from_page, the loop over the anchors: whether the anchor  *)
(* reaches the call of _validate_page_content.                             *)
(***************************************************************************)
IsApplyCandidate(a) ==
    /\ a.to # 0
    /\ url_kind[a.to] # "pdf"
    /\ a.apply
    /\ url_kind[a.to] \notin {"howto", "applying"}

(***************************************************************************)
(* _get_next_links: the targets of the anchors with a page href and a      *)
(* follow keyword, without duplicates, the first FanOut of them.           *)
(***************************************************************************)
RECURSIVE FollowTargets(_)
FollowTargets(as) ==
    IF as = <<>> THEN <<>>
    ELSE (IF Head(as).to # 0 /\ Head(as).follow
          THEN <<Head(as).to>> ELSE <<>>) \o FollowTargets(Tail(as))

\* list(dict.fromkeys(links)): the first occurrence of each, in order.
RECURSIVE Dedupe(_, _)
Dedupe(q, seen) ==
    IF q = <<>> THEN <<>>
    ELSE IF Head(q) \in seen THEN Dedupe(Tail(q), seen)
    ELSE <<Head(q)>> \o Dedupe(Tail(q), seen \cup {Head(q)})

TakeAll(q, n) == q
TakeFirst(q, n) == SubSeq(q, 1, IF Len(q) < n THEN Len(q) ELSE n)

GetNextLinks(u) == TakeFirst(Dedupe(FollowTargets(anchors[u]), {}), FanOut)

\* result["deadline"] and result["apply_link"]
BothFoundNever == FALSE
BothFound == result_deadline # 0 /\ result_apply # 0

\* if url in visited: return
NeverVisited(u, vis) == FALSE
IsVisited(u, vis) == u \in vis

\* if depth >= self.max_depth: return
DepthReached(d, m) == d >= m

Frame(u, d, ph, i, ls) ==
    [url |-> u, depth |-> d, phase |-> ph, i |-> i, links |-> ls]

Top == stack[Len(stack)]

PopNothing == stack
Pop == SubSeq(stack, 1, Len(stack) - 1)

SetTop(f) == [stack EXCEPT ![Len(stack)] = f]

\* crawl: the guard on start_url.
CrawlRefuse ==
    /\ cpc = "start"
    /\ start_url = 0
    /\ cpc' = "done"
    /\ UNCHANGED <<max_depth, start_url, anchors, url_kind, page_status,
                   has_date, has_login, stack, visited, result_deadline,
                   result_apply, apply_from, visit_log, fetch_log,
                   expand_count>>
    /\ UNCHANGED notCrawl

\* crawl: self._dfs(start_url, 0, visited, result)
CrawlStart ==
    /\ cpc = "start"
    /\ start_url # 0
    /\ cpc' = "run"
    /\ stack' = <<Frame(start_url, 0, "enter", 1, <<>>)>>
    /\ UNCHANGED <<max_depth, start_url, anchors, url_kind, page_status,
                   has_date, has_login, visited, result_deadline,
                   result_apply, apply_from, visit_log, fetch_log,
                   expand_count>>
    /\ UNCHANGED notCrawl

\* _dfs, lines 90-95: one of the three checks returns.
DfsReturnEarly ==
    /\ cpc = "run"
    /\ stack # <<>>
    /\ Top.phase = "enter"
    /\ \/ DepthReached(Top.depth, max_depth)
       \/ BothFound
       \/ IsVisited(Top.url, visited)
    /\ stack' = Pop
    /\ UNCHANGED <<max_depth, start_url, anchors, url_kind, page_status,
                   has_date, has_login, cpc, visited, result_deadline,
                   result_apply, apply_from, visit_log, fetch_log,
                   expand_count>>
    /\ UNCHANGED notCrawl

\* _dfs, lines 97-105: the page is marked and fetched; without a document
\* the call returns, with one the extraction starts.
DfsVisit ==
    /\ cpc = "run"
    /\ stack # <<>>
    /\ Top.phase = "enter"
    /\ ~DepthReached(Top.depth, max_depth)
    /\ ~BothFound
    /\ ~IsVisited(Top.url, visited)
    /\ visited' = visited \cup {Top.url}
    /\ visit_log' = Append(visit_log, [url |-> Top.url, depth |-> Top.depth])
    /\ fetch_log' = Append(fetch_log, [url |-> Top.url, why |-> "visit"])
    /\ stack' = IF GetSoupOk(Top.url)
                THEN SetTop([Top EXCEPT !.phase = "apply", !.i = 1])
                ELSE Pop
    /\ UNCHANGED <<max_depth, start_url, anchors, url_kind, page_status,
                   has_date, has_login, cpc, result_deadline, result_apply,
                   apply_from, expand_count>>
    /\ UNCHANGED notCrawl

\* _extract_info_from_page, part 1, one anchor of the loop: a candidate is
\* validated, which fetches it unless its URL is refused, and accepted or
\* passed over.
ExtractApplyAnchor ==
    /\ cpc = "run"
    /\ stack # <<>>
    /\ Top.phase = "apply"
    /\ result_apply = 0
    /\ Top.i <= Len(anchors[Top.url])
    /\ LET a == anchors[Top.url][Top.i]
           cand == IsApplyCandidate(a)
       IN  /\ fetch_log' = IF cand /\ ValidateFetches(a.to)
                           THEN Append(fetch_log,
                                       [url |-> a.to, why |-> "validate"])
                           ELSE fetch_log
           /\ IF cand /\ ValidateAccepts(a.to)
              THEN /\ result_apply' = a.to
                   /\ apply_from' = Top.url
                   /\ stack' = SetTop([Top EXCEPT !.phase = "deadline"])
              ELSE /\ UNCHANGED <<result_apply, apply_from>>
                   /\ stack' = SetTop([Top EXCEPT !.i = @ + 1])
    /\ UNCHANGED <<max_depth, start_url, anchors, url_kind, page_status,
                   has_date, has_login, cpc, visited, result_deadline,
                   visit_log, expand_count>>
    /\ UNCHANGED notCrawl

\* _extract_info_from_page, part 1 is skipped (apply_link is known) or its
\* loop has run out of anchors.
ExtractApplyDone ==
    /\ cpc = "run"
    /\ stack # <<>>
    /\ Top.phase = "apply"
    /\ result_apply # 0 \/ Top.i > Len(anchors[Top.url])
    /\ stack' = SetTop([Top EXCEPT !.phase = "deadline"])
    /\ UNCHANGED <<max_depth, start_url, anchors, url_kind, page_status,
                   has_date, has_login, cpc, visited, result_deadline,
                   result_apply, apply_from, visit_log, fetch_log,
                   expand_count>>
    /\ UNCHANGED notCrawl

\* What result["deadline"] is after part 2 of _extract_info_from_page.
DeadlineAfter(u) ==
    IF result_deadline = 0 /\ has_date[u] THEN u ELSE result_deadline

\* _extract_info_from_page, part 2, then _dfs lines 107-112: the deadline is
\* extracted; with both fields the call returns; within the depth the next
\* links are computed; otherwise the call returns.
ExtractDeadlineAndExpand ==
    /\ cpc = "run"
    /\ stack # <<>>
    /\ Top.phase = "deadline"
    /\ result_deadline' = DeadlineAfter(Top.url)
    /\ result_apply' = result_apply
    /\ IF BothFound'
       THEN /\ stack' = Pop
            /\ UNCHANGED expand_count
       ELSE IF Top.depth < max_depth - 1
       THEN /\ stack' = SetTop([Top EXCEPT !.phase = "expand", !.i = 1,
                                           !.links = GetNextLinks(Top.url)])
            /\ expand_count' = expand_count + 1
       ELSE /\ stack' = Pop
            /\ UNCHANGED expand_count
    /\ UNCHANGED <<max_depth, start_url, anchors, url_kind, page_status,
                   has_date, has_login, cpc, visited, apply_from, visit_log,
                   fetch_log>>
    /\ UNCHANGED notCrawl

\* _dfs, lines 113-116: the next link is followed.
FollowLink ==
    /\ cpc = "run"
    /\ stack # <<>>
    /\ Top.phase = "expand"
    /\ Top.i <= Len(Top.links)
    /\ ~BothFound
    /\ stack' = Append(SetTop([Top EXCEPT !.i = @ + 1]),
                       Frame(Top.links[Top.i], Top.depth + 1, "enter", 1, <<>>))
    /\ UNCHANGED <<max_depth, start_url, anchors, url_kind, page_status,
                   has_date, has_login, cpc, visited, result_deadline,
                   result_apply, apply_from, visit_log, fetch_log,
                   expand_count>>
    /\ UNCHANGED notCrawl

\* _dfs, lines 113-116: the loop ends, by exhaustion or by break.
FollowDone ==
    /\ cpc = "run"
    /\ stack # <<>>
    /\ Top.phase = "expand"
    /\ Top.i > Len(Top.links) \/ BothFound
    /\ stack' = Pop
    /\ UNCHANGED <<max_depth, start_url, anchors, url_kind, page_status,
                   has_date, has_login, cpc, visited, result_deadline,
                   result_apply, apply_from, visit_log, fetch_log,
                   expand_count>>
    /\ UNCHANGED notCrawl

\* crawl, lines 80-83: the outermost _dfs has returned.
CrawlReturn ==
    /\ cpc = "run"
    /\ stack = <<>>
    /\ cpc' = "done"
    /\ UNCHANGED <<max_depth, start_url, anchors, url_kind, page_status,
                   has_date, has_login, stack, visited, result_deadline,
                   result_apply, apply_from, visit_log, fetch_log,
                   expand_count>>
    /\ UNCHANGED notCrawl

(***************************************************************************)
(* deduplicate_results                                                     *)
(*                                                                         *)
(* A string is a sequence of characters, a record a function from field    *)
(* names to strings.  The field names of the code are written in ASCII:    *)
(*   "name"  项目名称       "link"  项目链接       "site"  项目官网链接    *)
(***************************************************************************)
Whitespace == {" ", "\t"}

\* str.strip()
RECURSIVE LStrip(_)
LStrip(s) ==
    IF s = <<>> THEN <<>>
    ELSE IF Head(s) \in Whitespace THEN LStrip(Tail(s)) ELSE s

RECURSIVE RStrip(_)
RStrip(s) ==
    IF s = <<>> THEN <<>>
    ELSE IF s[Len(s)] \in Whitespace THEN RStrip(SubSeq(s, 1, Len(s) - 1))
    ELSE s

Strip(s) == RStrip(LStrip(s))

\* str.split(): the maximal runs of characters that are no whitespace.
RECURSIVE SplitFrom(_, _, _)
SplitFrom(s, word, words) ==
    IF s = <<>> THEN (IF word = <<>> THEN words ELSE Append(words, word))
    ELSE IF Head(s) \in Whitespace
    THEN SplitFrom(Tail(s), <<>>,
                   IF word = <<>> THEN words ELSE Append(words, word))
    ELSE SplitFrom(Tail(s), Append(word, Head(s)), words)

Split(s) == SplitFrom(s, <<>>, <<>>)

\* sep.join(words)
RECURSIVE Join(_, _)
Join(sep, words) ==
    IF words = <<>> THEN <<>>
    ELSE IF Len(words) = 1 THEN words[1]
    ELSE words[1] \o sep \o Join(sep, Tail(words))

\* " ".join(value.split()), the normalisation of the name field.
NormalizeNameStripOnly(value) == Strip(value)
NormalizeName(value) == Join(<<" ">>, Split(value))

\* Lines 43-52: the normalisation of the value of a key field.
Normalize(field, value) ==
    IF field = "link" THEN Strip(value)
    ELSE IF field = "name" THEN NormalizeName(value)
    ELSE Strip(value)

\* item.get(field, "")
Get(item, field) == IF field \in DOMAIN item THEN item[field] ELSE <<>>

\* Lines 38-56: unique_key = tuple(key_values)
UniqueKey(item, fields) ==
    [k \in 1..Len(fields) |-> Normalize(fields[k], Get(item, fields[k]))]

\* Lines 29-30: the default of key_fields.
DefaultKeyFields == <<"name", "link">>

EffectiveKeyFields(kf) == IF kf.given THEN kf.fields ELSE DefaultKeyFields

\* seen_keys.add(unique_key)
SeenAddNothing(seen, key) == seen
SeenAdd(seen, key) == seen \cup {key}

\* unique_results.append(item)
PrependUnique(unique, item) == <<item>> \o unique
AppendUnique(unique, item) == Append(unique, item)

\* Lines 36-62: the loop over the items, from `rest` on.
RECURSIVE DedupeLoop(_, _, _, _, _)
DedupeLoop(rest, fields, seen, unique, dups) ==
    IF rest = <<>> THEN [unique |-> unique, removed |-> dups]
    ELSE LET key == UniqueKey(Head(rest), fields)
         IN  IF key \notin seen
             THEN DedupeLoop(Tail(rest), fields, SeenAdd(seen, key),
                             AppendUnique(unique, Head(rest)), dups)
             ELSE DedupeLoop(Tail(rest), fields, seen, unique, dups + 1)

\* deduplicate_results(results, key_fields): the list it returns and the
\* count of duplicates it reports.
DeduplicateResults(rs, kf) ==
    IF rs = <<>> THEN [unique |-> <<>>, removed |-> 0]
    ELSE DedupeLoop(rs, EffectiveKeyFields(kf), {}, <<>>, 0)

\* The records the function is applied to.  Names: "a b", with leading
\* whitespace, with trailing whitespace, with a run of internal whitespace,
\* and "ab".  Links: "x", "X" and "x" with a leading blank.
NameChoices ==
    { <<"a", " ", "b">>,
      <<" ", "a", " ", "b">>,
      <<"a", " ", "b", "\t">>,
      <<"a", " ", "\t", "b">>,
      <<"a", "b">> }

LinkChoices == { <<"x">>, <<"X">>, <<" ", "x">> }

\* A record with name and link, or one as create_result_template builds
\* it, with the link under the site field.
\* BaseSpider.create_result_template: the program name under "name", the
\* program link under "site"; the other fields of the template are
\* constants that no key of deduplicate_results reads.
CreateResultTemplate(program_name, program_link) ==
    [f \in {"name", "site"} |->
        IF f = "name" THEN program_name ELSE program_link]

RecordChoices ==
    { [f \in {"name", "link"} |-> IF f = "name" THEN n ELSE l] :
        n \in NameChoices, l \in LinkChoices }
    \cup
    { CreateResultTemplate(<<"a", " ", "b">>, l) : l \in {<<"x">>, <<"X">>} }

KeyFieldChoices ==
    { [given |-> FALSE, fields |-> <<>>],
      [given |-> TRUE, fields |-> <<"name">>],
      [given |-> TRUE, fields |-> <<"link">>],
      [given |-> TRUE, fields |-> <<"site">>],
      [given |-> TRUE, fields |-> <<>>] }

\* unique = deduplicate_results(records, key_fields)
Deduplicate ==
    /\ dpc = "start"
    /\ unique_results' = DeduplicateResults(records, key_fields).unique
    /\ duplicate_count' = DeduplicateResults(records, key_fields).removed
    /\ dpc' = "deduped"
    /\ UNCHANGED <<records, key_fields, unique_again>>
    /\ UNCHANGED notDedupe

\* deduplicate_results(unique, key_fields), the function applied to its own
\* output.
DeduplicateAgain ==
    /\ dpc = "deduped"
    /\ unique_again' = DeduplicateResults(unique_results, key_fields).unique
    /\ dpc' = "again"
    /\ UNCHANGED <<records, key_fields, unique_results, duplicate_count>>
    /\ UNCHANGED notDedupe

\* crawl, lines 73 and 80-83: what crawl returns for a field of result, the
\* value when there is one and the "N/A" string otherwise.
ReturnedField(v) ==
    IF v # 0 THEN [found |-> TRUE, value |-> v] ELSE [found |-> FALSE, value |-> "N/A"]

CrawlReturned ==
    IF start_url = 0
    THEN [deadline |-> ReturnedField(0), apply_link |-> ReturnedField(0)]
    ELSE [deadline |-> ReturnedField(result_deadline),
          apply_link |-> ReturnedField(result_apply)]

(***************************************************************************)
(* Specifications.                                                         *)
(***************************************************************************)
\* BrowserPool.__init__; run_tasks and crawl are not called.
InitPool ==
    /\ size \in 1..MaxPoolSize
    /\ pool = <<>>
    /\ all_browsers = <<>>
    /\ initialized = FALSE
    /\ ipc = "new"
    /\ created = [c \in Handles |-> "pending"]
    /\ driver_state = [h \in Handles |-> FreshDriver]
    /\ tpc = [t \in Threads |-> "idle"]
    /\ held = [t \in Threads |-> 0]
    /\ made = 0
    /\ destroyed = {}
    /\ to_create = [t \in Threads |-> 0]
    /\ clpc = "idle"
    /\ close_idx = 0
    /\ path = "rich"
    /\ max_workers = 1
    /\ task_result = <<>>
    /\ fstate = <<>>
    /\ work_queue = <<>>
    /\ worker = [w \in 1..MaxWorkers |-> 0]
    /\ mpc = "submit"
    /\ idx = 1
    /\ yielded = {}
    /\ results = <<>>
    /\ failed_items = <<>>
    /\ durations = <<>>
    /\ completed_count = 0
    /\ success_count = 0
    /\ fail_count = 0
    /\ is_interrupted = FALSE
    /\ done_at_interrupt = {}
    /\ max_depth = 0
    /\ start_url = 0
    /\ anchors = [u \in Urls |-> <<>>]
    /\ url_kind = [u \in Urls |-> "plain"]
    /\ page_status = [u \in Urls |-> "ok"]
    /\ has_date = [u \in Urls |-> FALSE]
    /\ has_login = [u \in Urls |-> FALSE]
    /\ cpc = "start"
    /\ stack = <<>>
    /\ visited = {}
    /\ result_deadline = 0
    /\ result_apply = 0
    /\ apply_from = 0
    /\ visit_log = <<>>
    /\ fetch_log = <<>>
    /\ expand_count = 0
    /\ records = <<>>
    /\ key_fields = [given |-> FALSE, fields |-> <<>>]
    /\ dpc = "start"
    /\ unique_results = <<>>
    /\ duplicate_count = 0
    /\ unique_again = <<>>

\* BrowserPool(size) before any call; close_all has not been called.
InitPoolLife ==
    /\ size \in 1..MaxPoolSize
    /\ pool = <<>>
    /\ all_browsers = <<>>
    /\ initialized = FALSE
    /\ ipc = "new"
    /\ created = [c \in 1..MaxMade |-> "pending"]
    /\ driver_state = [h \in 1..MaxMade |-> FreshDriver]
    /\ tpc = [t \in Threads |-> "idle"]
    /\ held = [t \in Threads |-> 0]
    /\ made = 0
    /\ destroyed = {}
    /\ to_create = [t \in Threads |-> 0]
    /\ clpc = "idle"
    /\ close_idx = 0
    /\ path = "rich"
    /\ max_workers = 1
    /\ task_result = <<>>
    /\ fstate = <<>>
    /\ work_queue = <<>>
    /\ worker = [w \in 1..MaxWorkers |-> 0]
    /\ mpc = "submit"
    /\ idx = 1
    /\ yielded = {}
    /\ results = <<>>
    /\ failed_items = <<>>
    /\ durations = <<>>
    /\ completed_count = 0
    /\ success_count = 0
    /\ fail_count = 0
    /\ is_interrupted = FALSE
    /\ done_at_interrupt = {}
    /\ max_depth = 0
    /\ start_url = 0
    /\ anchors = [u \in Urls |-> <<>>]
    /\ url_kind = [u \in Urls |-> "plain"]
    /\ page_status = [u \in Urls |-> "ok"]
    /\ has_date = [u \in Urls |-> FALSE]
    /\ has_login = [u \in Urls |-> FALSE]
    /\ cpc = "start"
    /\ stack = <<>>
    /\ visited = {}
    /\ result_deadline = 0
    /\ result_apply = 0
    /\ apply_from = 0
    /\ visit_log = <<>>
    /\ fetch_log = <<>>
    /\ expand_count = 0
    /\ records = <<>>
    /\ key_fields = [given |-> FALSE, fields |-> <<>>]
    /\ dpc = "start"
    /\ unique_results = <<>>
    /\ duplicate_count = 0
    /\ unique_again = <<>>

\* CUHKSpider.run: the pool is created and initialized, every creation
\* succeeded, and run_tasks is entered with K tasks that succeed whenever
\* they get a handle.
InitRunPool ==
    /\ size \in 1..MaxWorkers
    /\ pool = [h \in 1..size |-> h]
    /\ all_browsers = [h \in 1..size |-> h]
    /\ initialized = TRUE
    /\ ipc = "done"
    /\ created = [c \in 1..MaxWorkers |-> IF c <= size THEN "ok" ELSE "pending"]
    /\ driver_state = [h \in 1..MaxWorkers |-> FreshDriver]
    /\ tpc = [t \in Threads |-> "idle"]
    /\ held = [t \in Threads |-> 0]
    /\ made = size
    /\ destroyed = {}
    /\ to_create = [t \in Threads |-> 0]
    /\ clpc = "idle"
    /\ close_idx = 0
    /\ path \in {"rich", "simple"}
    /\ max_workers \in 1..MaxWorkers
    /\ \E k \in 0..MaxItems : task_result = [i \in 1..k |-> "ok"]
    /\ fstate = [i \in Items |-> "unsubmitted"]
    /\ work_queue = <<>>
    /\ worker = [w \in 1..MaxWorkers |-> 0]
    /\ mpc = "submit"
    /\ idx = 1
    /\ yielded = {}
    /\ results = <<>>
    /\ failed_items = <<>>
    /\ durations = <<>>
    /\ completed_count = 0
    /\ success_count = 0
    /\ fail_count = 0
    /\ is_interrupted = FALSE
    /\ done_at_interrupt = {}
    /\ max_depth = 0
    /\ start_url = 0
    /\ anchors = [u \in Urls |-> <<>>]
    /\ url_kind = [u \in Urls |-> "plain"]
    /\ page_status = [u \in Urls |-> "ok"]
    /\ has_date = [u \in Urls |-> FALSE]
    /\ has_login = [u \in Urls |-> FALSE]
    /\ cpc = "start"
    /\ stack = <<>>
    /\ visited = {}
    /\ result_deadline = 0
    /\ result_apply = 0
    /\ apply_from = 0
    /\ visit_log = <<>>
    /\ fetch_log = <<>>
    /\ expand_count = 0
    /\ records = <<>>
    /\ key_fields = [given |-> FALSE, fields |-> <<>>]
    /\ dpc = "start"
    /\ unique_results = <<>>
    /\ duplicate_count = 0
    /\ unique_again = <<>>

\* CrawlerProgress.__init__ and _reset_stats, with the path run_tasks picks;
\* the pool and the crawler are not used.
InitRun ==
    /\ size = 1
    /\ pool = <<>>
    /\ all_browsers = <<>>
    /\ initialized = FALSE
    /\ ipc = "new"
    /\ created = [c \in Handles |-> "pending"]
    /\ driver_state = [h \in Handles |-> FreshDriver]
    /\ tpc = [t \in Threads |-> "idle"]
    /\ held = [t \in Threads |-> 0]
    /\ made = 0
    /\ destroyed = {}
    /\ to_create = [t \in Threads |-> 0]
    /\ clpc = "idle"
    /\ close_idx = 0
    /\ path \in {"rich", "simple"}
    /\ max_workers \in 1..MaxWorkers
    /\ \E k \in 0..MaxItems : task_result \in [1..k -> TaskResults]
    /\ fstate = [i \in Items |-> "unsubmitted"]
    /\ work_queue = <<>>
    /\ worker = [w \in 1..MaxWorkers |-> 0]
    /\ mpc = "submit"
    /\ idx = 1
    /\ yielded = {}
    /\ results = <<>>
    /\ failed_items = <<>>
    /\ durations = <<>>
    /\ completed_count = 0
    /\ success_count = 0
    /\ fail_count = 0
    /\ is_interrupted = FALSE
    /\ done_at_interrupt = {}
    /\ max_depth = 0
    /\ start_url = 0
    /\ anchors = [u \in Urls |-> <<>>]
    /\ url_kind = [u \in Urls |-> "plain"]
    /\ page_status = [u \in Urls |-> "ok"]
    /\ has_date = [u \in Urls |-> FALSE]
    /\ has_login = [u \in Urls |-> FALSE]
    /\ cpc = "start"
    /\ stack = <<>>
    /\ visited = {}
    /\ result_deadline = 0
    /\ result_apply = 0
    /\ apply_from = 0
    /\ visit_log = <<>>
    /\ fetch_log = <<>>
    /\ expand_count = 0
    /\ records = <<>>
    /\ key_fields = [given |-> FALSE, fields |-> <<>>]
    /\ dpc = "start"
    /\ unique_results = <<>>
    /\ duplicate_count = 0
    /\ unique_again = <<>>

\* DeepCrawler.__init__ and the arguments and pages of one crawl; the pool
\* and run_tasks are not used.
InitCrawl ==
    /\ size = 1
    /\ pool = <<>>
    /\ all_browsers = <<>>
    /\ initialized = FALSE
    /\ ipc = "new"
    /\ created = [c \in Handles |-> "pending"]
    /\ driver_state = [h \in Handles |-> FreshDriver]
    /\ tpc = [t \in Threads |-> "idle"]
    /\ held = [t \in Threads |-> 0]
    /\ made = 0
    /\ destroyed = {}
    /\ to_create = [t \in Threads |-> 0]
    /\ clpc = "idle"
    /\ close_idx = 0
    /\ path = "rich"
    /\ max_workers = 1
    /\ task_result = <<>>
    /\ fstate = <<>>
    /\ work_queue = <<>>
    /\ worker = [w \in 1..MaxWorkers |-> 0]
    /\ mpc = "submit"
    /\ idx = 1
    /\ yielded = {}
    /\ results = <<>>
    /\ failed_items = <<>>
    /\ durations = <<>>
    /\ completed_count = 0
    /\ success_count = 0
    /\ fail_count = 0
    /\ is_interrupted = FALSE
    /\ done_at_interrupt = {}
    /\ max_depth \in 0..MaxDepth
    /\ start_url \in {0, 1}
    /\ \E p1 \in PageChoices(1), p2 \in PageChoices(2), p3 \in PageChoices(3) :
          anchors = [u \in Urls |-> IF u = 1 THEN p1
                                    ELSE IF u = 2 THEN p2
                                    ELSE IF u = 3 THEN p3
                                    ELSE BackPage(u)]
    /\ \E k2 \in KindChoices(2), k3 \in KindChoices(3) :
          url_kind = [u \in Urls |-> IF u = 2 THEN k2
                                     ELSE IF u = 3 THEN k3
                                     ELSE "plain"]
    /\ page_status \in StatusChoices
    /\ has_date \in {[u \in Urls |-> u \in S] : S \in DateChoices}
    /\ has_login \in {[u \in Urls |-> u \in S] : S \in LoginChoices}
    /\ cpc = "start"
    /\ stack = <<>>
    /\ visited = {}
    /\ result_deadline = 0
    /\ result_apply = 0
    /\ apply_from = 0
    /\ visit_log = <<>>
    /\ fetch_log = <<>>
    /\ expand_count = 0
    /\ records = <<>>
    /\ key_fields = [given |-> FALSE, fields |-> <<>>]
    /\ dpc = "start"
    /\ unique_results = <<>>
    /\ duplicate_count = 0
    /\ unique_again = <<>>

\* The arguments of one call of deduplicate_results; nothing else is used.
InitDedupe ==
    /\ size = 1
    /\ pool = <<>>
    /\ all_browsers = <<>>
    /\ initialized = FALSE
    /\ ipc = "new"
    /\ created = [c \in Handles |-> "pending"]
    /\ driver_state = [h \in Handles |-> FreshDriver]
    /\ tpc = [t \in Threads |-> "idle"]
    /\ held = [t \in Threads |-> 0]
    /\ made = 0
    /\ destroyed = {}
    /\ to_create = [t \in Threads |-> 0]
    /\ clpc = "idle"
    /\ close_idx = 0
    /\ path = "rich"
    /\ max_workers = 1
    /\ task_result = <<>>
    /\ fstate = <<>>
    /\ work_queue = <<>>
    /\ worker = [w \in 1..MaxWorkers |-> 0]
    /\ mpc = "submit"
    /\ idx = 1
    /\ yielded = {}
    /\ results = <<>>
    /\ failed_items = <<>>
    /\ durations = <<>>
    /\ completed_count = 0
    /\ success_count = 0
    /\ fail_count = 0
    /\ is_interrupted = FALSE
    /\ done_at_interrupt = {}
    /\ max_depth = 0
    /\ start_url = 0
    /\ anchors = [u \in Urls |-> <<>>]
    /\ url_kind = [u \in Urls |-> "plain"]
    /\ page_status = [u \in Urls |-> "ok"]
    /\ has_date = [u \in Urls |-> FALSE]
    /\ has_login = [u \in Urls |-> FALSE]
    /\ cpc = "start"
    /\ stack = <<>>
    /\ visited = {}
    /\ result_deadline = 0
    /\ result_apply = 0
    /\ apply_from = 0
    /\ visit_log = <<>>
    /\ fetch_log = <<>>
    /\ expand_count = 0
    /\ \E n \in 0..MaxRecords : records \in [1..n -> RecordChoices]
    /\ key_fields \in KeyFieldChoices
    /\ dpc = "start"
    /\ unique_results = <<>>
    /\ duplicate_count = 0
    /\ unique_again = <<>>

NextPool ==
    \/ InitializeStart
    \/ \E c \in Handles : CreateBrowser(c)
    \/ \E c \in Handles : CreateBrowserFails(c)
    \/ InitializeJoin
    \/ InitializeAgain
    \/ \E t \in Threads : GetBrowserEnter(t)
    \/ \E t \in Threads : PoolGet(t)
    \/ \E t \in Threads : PoolGetTimeout(t)
    \/ \E t \in Threads : UseBrowser(t)
    \/ \E t \in Threads : ExitBlock(t, "returned")
    \/ \E t \in Threads : ExitBlock(t, "raised")

SpecPool == InitPool /\ [][NextPool]_vars

NextRun ==
    \/ Submit
    \/ StartCollecting
    \/ \E w \in 1..MaxWorkers : WorkerStart(w)
    \/ \E w \in 1..MaxWorkers : WorkerSkip(w)
    \/ \E w \in 1..MaxWorkers : TaskFinish(w)
    \/ \E i \in 1..MaxItems : CollectResult(i)
    \/ \E i \in 1..MaxItems : CollectFailure(i)
    \/ \E i \in 1..MaxItems : ObserveInterrupt(i)
    \/ CancelNext
    \/ CancelBreak
    \/ LoopEnd
    \/ ShutdownReturn
    \/ Interrupt

SpecRun == InitRun /\ [][NextRun]_vars

NextRunPool ==
    \/ Submit
    \/ StartCollecting
    \/ \E w \in 1..MaxWorkers : WorkerStart(w)
    \/ \E w \in 1..MaxWorkers : TaskGetBrowser(w)
    \/ \E w \in 1..MaxWorkers : PoolGet(w)
    \/ \E w \in 1..MaxWorkers : PoolGetTimeout(w)
    \/ \E w \in 1..MaxWorkers : ExitBlock(w, "returned")
    \/ \E w \in 1..MaxWorkers : TaskReturn(w)
    \/ \E w \in 1..MaxWorkers : TaskRaisesEmpty(w)
    \/ \E i \in 1..MaxItems : CollectResult(i)
    \/ \E i \in 1..MaxItems : CollectFailure(i)
    \/ LoopEnd
    \/ ShutdownReturn

SpecRunPool == InitRunPool /\ [][NextRunPool]_vars

NextPoolLife ==
    \/ \E t \in Callers : LifeGetBrowser(t)
    \/ \E t \in Callers : LifeInitialize(t)
    \/ \E t \in Callers : LifeCreateBrowser(t)
    \/ \E t \in Callers : LifeCreateBrowserFails(t)
    \/ \E t \in Callers : LifeInitializeJoin(t)
    \/ \E t \in Callers : PoolGet(t)
    \/ \E t \in Callers : PoolGetTimeout(t)
    \/ \E t \in Callers : ExitBlock(t, "returned")
    \/ CloseAllStart
    \/ CloseDriver
    \/ CloseLoopEnd
    \/ CloseAllReturn

SpecPoolLife == InitPoolLife /\ [][NextPoolLife]_vars

\* CrawlerProgress.__init__ and _reset_stats for the runs whose end is
\* checked: task_func raises or returns for each item (whether the progress
\* line of a result can be formatted changes the counters alone, not the
\* steps of any thread).
InitRunLive ==
    /\ size = 1
    /\ pool = <<>>
    /\ all_browsers = <<>>
    /\ initialized = FALSE
    /\ ipc = "new"
    /\ created = [c \in Handles |-> "pending"]
    /\ driver_state = [h \in Handles |-> FreshDriver]
    /\ tpc = [t \in Threads |-> "idle"]
    /\ held = [t \in Threads |-> 0]
    /\ made = 0
    /\ destroyed = {}
    /\ to_create = [t \in Threads |-> 0]
    /\ clpc = "idle"
    /\ close_idx = 0
    /\ path \in {"rich", "simple"}
    /\ max_workers \in 1..MaxWorkers
    /\ \E k \in 0..MaxItems : task_result \in [1..k -> {"raises", "ok"}]
    /\ fstate = [i \in Items |-> "unsubmitted"]
    /\ work_queue = <<>>
    /\ worker = [w \in 1..MaxWorkers |-> 0]
    /\ mpc = "submit"
    /\ idx = 1
    /\ yielded = {}
    /\ results = <<>>
    /\ failed_items = <<>>
    /\ durations = <<>>
    /\ completed_count = 0
    /\ success_count = 0
    /\ fail_count = 0
    /\ is_interrupted = FALSE
    /\ done_at_interrupt = {}
    /\ max_depth = 0
    /\ start_url = 0
    /\ anchors = [u \in Urls |-> <<>>]
    /\ url_kind = [u \in Urls |-> "plain"]
    /\ page_status = [u \in Urls |-> "ok"]
    /\ has_date = [u \in Urls |-> FALSE]
    /\ has_login = [u \in Urls |-> FALSE]
    /\ cpc = "start"
    /\ stack = <<>>
    /\ visited = {}
    /\ result_deadline = 0
    /\ result_apply = 0
    /\ apply_from = 0
    /\ visit_log = <<>>
    /\ fetch_log = <<>>
    /\ expand_count = 0
    /\ records = <<>>
    /\ key_fields = [given |-> FALSE, fields |-> <<>>]
    /\ dpc = "start"
    /\ unique_results = <<>>
    /\ duplicate_count = 0
    /\ unique_again = <<>>

\* The threads of run_tasks are scheduled: a step is taken whenever one is
\* possible (every call of task_func returns or raises).
SpecRunLive == InitRunLive /\ [][NextRun]_vars /\ WF_vars(NextRun)

NextCrawl ==
    \/ CrawlRefuse
    \/ CrawlStart
    \/ DfsReturnEarly
    \/ DfsVisit
    \/ ExtractApplyAnchor
    \/ ExtractApplyDone
    \/ ExtractDeadlineAndExpand
    \/ FollowLink
    \/ FollowDone
    \/ CrawlReturn

SpecCrawl == InitCrawl /\ [][NextCrawl]_vars

NextDedupe ==
    \/ Deduplicate
    \/ DeduplicateAgain

SpecDedupe == InitDedupe /\ [][NextDedupe]_vars

\* crawl is one call on one thread: it takes its next step whenever it has one
\* (every fetch returns or times out).
SpecCrawlLive == InitCrawl /\ [][NextCrawl]_vars /\ WF_vars(NextCrawl)

(***************************************************************************)
(* Properties of the pool.                                                 *)
(***************************************************************************)
CheckedOut == {t \in Threads : held[t] # 0}

Holders(h) == {t \in Threads : held[t] = h}

\* C1: with N handles in an initialized pool, at most N handles are checked
\* out at any moment, and a caller that has no handle while N are checked
\* out does not obtain one in the next step: it has to wait for a release.
C1_AtMostNCheckedOut ==
    /\ [](initialized => Cardinality(CheckedOut) <= Len(all_browsers))
    /\ [][\A t \in Threads :
            (initialized /\ Cardinality(CheckedOut) = Len(all_browsers)
                /\ held[t] = 0) => held'[t] = 0]_vars

\* Every handle is checked out and a caller is waiting in self._pool.get.
C1_Witness ==
    /\ initialized
    /\ Len(all_browsers) >= 1
    /\ Cardinality(CheckedOut) = Len(all_browsers)
    /\ \E t \in Threads : tpc[t] = "get"

\* C4: a caller that holds a handle keeps it while it is inside the block,
\* and the step that ends the block, normally or by an exception, appends
\* exactly that handle once to the available queue; the queue of an
\* initialized pool grows by nothing else, and no caller outside a block
\* keeps a handle.
C4_ReleasedExactlyOnce ==
    /\ [](\A t \in Threads : tpc[t] # "body" => held[t] = 0)
    /\ [][/\ \A t \in Threads : held[t] # 0 =>
                \/ held'[t] = held[t] /\ tpc'[t] = "body" /\ pool' = pool
                \/ /\ held'[t] = 0
                   /\ tpc'[t] \in {"returned", "raised"}
                   /\ pool' = Append(pool, held[t])
                \/ /\ held'[t] = held[t]
                   /\ \E u \in Threads \ {t} : held[u] # held'[u]
          /\ (initialized /\ pool' # pool /\ Len(pool') >= Len(pool)) =>
                \E t \in Threads :
                    /\ held[t] # 0
                    /\ held'[t] = 0
                    /\ pool' = Append(pool, held[t])]_vars

\* One caller's block has ended by an exception, another's normally, and
\* every handle is back in the queue.
C4_Witness ==
    /\ initialized
    /\ Len(all_browsers) >= 1
    /\ \E t \in Threads : tpc[t] = "raised"
    /\ \E t \in Threads : tpc[t] = "returned"
    /\ CheckedOut = {}
    /\ SeqToSet(pool) = SeqToSet(all_browsers)

\* C5: every handle in the available queue is in the state of a freshly
\* created handle: one window, no cookies, no local storage.
C5_ReleasedHandleIsFresh ==
    \A i \in 1..Len(pool) : driver_state[pool[i]] = FreshDriver

\* C6: once initialize has completed, every handle the pool created is in
\* exactly one place, the available queue (once) or the hands of exactly one
\* caller; nothing else is in the queue or held, and the handles are exactly
\* those that initialize created.
C6_ExactlyOnePlace ==
    initialized =>
        /\ \A h \in SeqToSet(all_browsers) :
              CountIn(pool, h) + Cardinality(Holders(h)) = 1
        /\ SeqToSet(pool) \subseteq SeqToSet(all_browsers)
        /\ \A t \in Threads : held[t] # 0 => held[t] \in SeqToSet(all_browsers)
        /\ SeqToSet(all_browsers) = {c \in 1..size : created[c] = "ok"}
        /\ Len(all_browsers) = Cardinality(SeqToSet(all_browsers))
        /\ Len(all_browsers) <= size

\* A handle is held by a caller after another caller's acquisition timed
\* out and a third caller's block ended by an exception.
C6_Witness ==
    /\ initialized
    /\ \E t \in Threads : tpc[t] = "empty"
    /\ \E t \in Threads : tpc[t] = "raised"
    /\ CheckedOut # {}

\* C19: a call of get_browser that finds no handle available for the whole
\* timeout ends with queue.Empty and without a handle; the step that ends it
\* adds nothing to the available queue and removes nothing from it, and
\* changes no handle; and a waiting caller gets no handle while the queue is
\* empty.
C19_TimeoutLeavesPoolUnchanged ==
    /\ [](\A t \in Threads : tpc[t] = "empty" => held[t] = 0)
    /\ [][\A t \in Threads :
            /\ (tpc[t] = "get" /\ tpc'[t] = "empty") =>
                  /\ pool = <<>>
                  /\ pool' = pool
                  /\ held' = held
                  /\ all_browsers' = all_browsers
                  /\ driver_state' = driver_state
            /\ (tpc[t] = "get" /\ pool = <<>>) => held'[t] = 0]_vars

\* A caller's acquisition has timed out on an initialized pool whose
\* handles are all checked out; the queue is empty.
C19_Witness ==
    /\ initialized
    /\ Len(all_browsers) >= 1
    /\ pool = <<>>
    /\ Cardinality(CheckedOut) = Len(all_browsers)
    /\ \E t \in Threads : tpc[t] = "empty"

\* C20: a call of initialize on an initialized pool returns at once: the
\* step creates no handle and leaves the available queue, the list of all
\* handles and the flag as they are; and on an initialized pool no step
\* creates a handle.
C20_InitializeIdempotent ==
    /\ [][(ipc = "done" /\ ipc' # ipc) =>
            /\ ipc' = "again"
            /\ pool' = pool
            /\ all_browsers' = all_browsers
            /\ created' = created
            /\ driver_state' = driver_state
            /\ initialized' = initialized]_vars
    /\ [][initialized =>
            /\ all_browsers' = all_browsers
            /\ created' = created
            /\ initialized']_vars

\* The second call of initialize has returned while a handle is checked
\* out and another caller waits.
C20_Witness ==
    /\ ipc = "again"
    /\ initialized
    /\ Len(all_browsers) >= 1
    /\ CheckedOut # {}
    /\ \E t \in Threads : tpc[t] = "get"

FailedCreations == {c \in 1..size : created[c] = "failed"}

C22_CloseAllDestroysEveryHandle ==
    [][(clpc = "clear" /\ clpc' = "done") =>
          \A h \in 1..made : h \in destroyed']_vars

\* C28: once close_all has returned, the queue holds no destroyed handle,
\* also after a handle checked out before is released; get_browser never
\* yields a destroyed handle; and the pool holds at most `size` handles.
C28_NoDestroyedHandleAfterClose ==
    /\ [](clpc = "done" =>
            /\ SeqToSet(pool) \cap destroyed = {}
            /\ Len(pool) + Cardinality(CheckedOut) <= size)
    /\ [][clpc = "done" =>
            \A t \in Callers :
                (held[t] = 0 /\ held'[t] # 0) => held'[t] \notin destroyed]_vars

\* C29: when several threads trigger the initialization of a pool that is
\* not initialized, `size` handles are created in all and the pool never
\* holds more than `size` handles.
C29_ConcurrentInitializeCreatesSize ==
    clpc = "idle" =>
        /\ made <= size
        /\ Len(all_browsers) <= size
        /\ Len(pool) + Cardinality(CheckedOut) <= size

(***************************************************************************)
(* Properties of run_tasks.                                                *)
(***************************************************************************)
Raising == {i \in Items : task_result[i] = "raises"}

\* C2: when run_tasks returns after an interrupt, the returned list has at
\* most K entries and holds the result of every task that had finished
\* successfully when the flag was set.
C2_NoCompletedResultDropped ==
    (mpc = "returned" /\ is_interrupted) =>
        /\ Len(results) <= Len(task_result)
        /\ done_at_interrupt \subseteq SeqToSet(results)

\* C3: without an interrupt, a batch whose task_func raises exactly for the
\* items of F returns with len(results) = K - |F|, success_count = K - |F|,
\* fail_count = |F|, completed_count = K, and the results are those of the
\* items outside F.
C3_FailuresAreIsolated ==
    (mpc = "returned" /\ ~is_interrupted) =>
        /\ Len(results) = Len(task_result) - Cardinality(Raising)
        /\ success_count = Len(task_result) - Cardinality(Raising)
        /\ fail_count = Cardinality(Raising)
        /\ completed_count = Len(task_result)
        /\ SeqToSet(results) = Items \ Raising

\* C7 as stated: once the flag is set, no task that had not started starts.
C7_NoStartAfterFlag ==
    [][is_interrupted =>
         \A i \in Items : fstate'[i] = "running" => fstate[i] = "running"]_vars

\* C7 as amended: once the collection loop has seen the flag, cancelled the
\* futures and been left, no task that had not started starts, and a
\* cancelled task is never started.
C7_NoStartAfterCancel ==
    [][/\ mpc \in {"shutdown", "returned"} =>
            \A i \in Items : fstate'[i] = "running" => fstate[i] = "running"
       /\ \A i \in Items : fstate[i] = "cancelled" => fstate'[i] = "cancelled"
      ]_vars

\* run_tasks has returned after an interrupt with a task cancelled and with
\* a task that finished after the flag was set.
C7_Witness ==
    /\ mpc = "returned"
    /\ is_interrupted
    /\ \E i \in Items : fstate[i] = "cancelled"
    /\ \E i \in Items : fstate[i] = "finished_ok" /\ i \notin done_at_interrupt

Running == {i \in Items : fstate[i] = "running"}

\* C17: at no moment are more than max_workers invocations of task_func
\* executing, however many items were submitted.
C17_AtMostWRunning ==
    /\ Cardinality(Running) <= max_workers
    /\ Cardinality({w \in 1..MaxWorkers : worker[w] # 0}) <= max_workers

\* max_workers tasks are running while a further submitted task waits in
\* the queue of the executor.
C17_Witness ==
    /\ Len(task_result) > max_workers
    /\ Cardinality(Running) = max_workers
    /\ work_queue # <<>>
    /\ fstate[Head(work_queue)] = "pending"

\* C18: a running task is never killed, it only ever finishes; when
\* run_tasks has returned no invocation of task_func is running; and after
\* an interrupt run_tasks does return.
C18_InterruptLetsRunningFinish ==
    /\ [][\A i \in Items :
            fstate[i] = "running" =>
                fstate'[i] \in {"running", "finished_ok", "finished_exc"}]_vars
    /\ [](mpc = "returned" =>
            /\ Running = {}
            /\ \A w \in 1..MaxWorkers : worker[w] = 0)
    /\ (is_interrupted ~> mpc = "returned")

\* After an interrupt the collection loop has cancelled the futures and
\* been left, and the executor's shutdown waits for a task that is still
\* running.
C18_Witness ==
    /\ is_interrupted
    /\ mpc = "shutdown"
    /\ Running # {}
    /\ \E i \in Items : fstate[i] = "cancelled"

Started(i) == fstate[i] \in {"running", "finished_ok", "finished_exc"}

\* C24: an item moves only from pending to running and from running to an
\* outcome, or from pending to cancelled, and this only after an interrupt;
\* when run_tasks has returned every item is in exactly one of success
\* (in results), failed (in failed_items) and cancelled, and every item
\* whose task_func was started is recorded in results or in failed_items.
C24_ItemLifecycle ==
    /\ [][\A i \in Items :
            fstate'[i] # fstate[i] =>
                \/ fstate[i] = "unsubmitted" /\ fstate'[i] = "pending"
                \/ fstate[i] = "pending" /\ fstate'[i] = "running"
                \/ /\ fstate[i] = "running"
                   /\ fstate'[i] \in {"finished_ok", "finished_exc"}
                \/ /\ fstate[i] = "pending"
                   /\ fstate'[i] = "cancelled"
                   /\ is_interrupted]_vars
    /\ [](mpc = "returned" =>
            \A i \in Items :
                /\ Cardinality({x \in {"success", "failed", "cancelled"} :
                      \/ x = "success" /\ i \in SeqToSet(results)
                      \/ x = "failed" /\ i \in SeqToSet(failed_items)
                      \/ x = "cancelled" /\ fstate[i] = "cancelled"}) = 1
                /\ Started(i) =>
                      i \in SeqToSet(results) \cup SeqToSet(failed_items))

\* C27: in both paths, at every moment of the run and when it has returned,
\* completed_count = success_count + fail_count <= K, success_count =
\* len(results), fail_count = len(failed_items), and no item is accounted
\* both as a success and as a failure.
C27_CountersConsistent ==
    /\ completed_count = success_count + fail_count
    /\ completed_count <= Len(task_result)
    /\ success_count = Len(results)
    /\ fail_count = Len(failed_items)
    /\ SeqToSet(results) \cap SeqToSet(failed_items) = {}

\* C23: with a fully initialized pool of as many handles as run_tasks has
\* workers and K tasks that each take one handle and succeed, no task ever
\* fails for want of a handle, never more than N handles are checked out,
\* and run_tasks returns K results.
C23_PoolSizedToWorkersNeverExhausted ==
    size = max_workers =>
        /\ \A w \in 1..MaxWorkers : tpc[w] # "empty"
        /\ \A i \in Items : fstate[i] # "finished_exc"
        /\ Cardinality(CheckedOut) <= size
        /\ Len(pool) + Cardinality(CheckedOut) = size
        /\ mpc = "returned" =>
              /\ Len(results) = Len(task_result)
              /\ SeqToSet(results) = Items
              /\ failed_items = <<>>

\* Every handle of a pool of MaxWorkers handles is checked out by a running
\* task while a further task waits in the executor's queue.
C23_Witness ==
    /\ size = max_workers
    /\ size = MaxWorkers
    /\ pool = <<>>
    /\ Cardinality(CheckedOut) = size
    /\ work_queue # <<>>

(***************************************************************************)
(* Properties of crawl.                                                    *)
(***************************************************************************)
RECURSIVE GeomSum(_, _)
GeomSum(f, d) == IF d <= 0 THEN 0 ELSE 1 + f * GeomSum(f, d - 1)

VisitsOf(u) == {i \in 1..Len(visit_log) : visit_log[i].url = u}

VisitFetchesOf(u) ==
    {i \in 1..Len(fetch_log) :
        fetch_log[i].url = u /\ fetch_log[i].why = "visit"}

\* C8: within one crawl no URL is visited as a node of the search more than
\* once: it is marked, fetched for a visit and extracted from at most once.
C8_NoUrlVisitedTwice ==
    \A u \in Urls :
        /\ Cardinality(VisitsOf(u)) <= 1
        /\ Cardinality(VisitFetchesOf(u)) <= 1

\* A finished crawl in which a page visited later links back to a page
\* visited before it, and followed that link.
C8_Witness ==
    /\ cpc = "done"
    /\ ~BothFound
    /\ \E i, j \in 1..Len(visit_log) :
          /\ i < j
          /\ GetSoupOk(visit_log[j].url)
          /\ visit_log[j].depth < max_depth - 1
          /\ visit_log[i].url \in SeqToSet(GetNextLinks(visit_log[j].url))

\* C9: the number of pages visited is at most the sum of FanOut^i for
\* i = 0..max_depth-1, and no page is visited at depth >= max_depth.
C9_VisitsBounded ==
    /\ Len(visit_log) <= GeomSum(FanOut, max_depth)
    /\ \A i \in 1..Len(visit_log) : visit_log[i].depth < max_depth

\* A finished crawl of depth 2 whose start page has more than FanOut
\* distinct links to follow and which visited the 1 + FanOut pages allowed.
C9_Witness ==
    /\ cpc = "done"
    /\ max_depth = 2
    /\ Len(Dedupe(FollowTargets(anchors[1]), {})) > FanOut
    /\ Len(visit_log) = 1 + FanOut

\* C10: once deadline and apply_link are both found, no step of the crawl
\* visits a page, issues a fetch or computes the links of a page; and a
\* crawl that found both on its start page has visited the start page alone
\* and expanded no link.
C10_StopsOnceBothFound ==
    /\ [][(result_deadline # 0 /\ result_apply # 0) =>
            /\ visit_log' = visit_log
            /\ fetch_log' = fetch_log
            /\ expand_count' = expand_count
            /\ visited' = visited]_vars
    /\ []((/\ cpc = "done"
           /\ start_url # 0
           /\ result_deadline = start_url
           /\ apply_from = start_url) =>
             /\ visit_log = <<[url |-> start_url, depth |-> 0]>>
             /\ expand_count = 0)

\* A finished crawl of depth >= 2 that found both fields on a start page
\* which has links to follow.
C10_Witness ==
    /\ cpc = "done"
    /\ max_depth >= 2
    /\ result_deadline = start_url
    /\ apply_from = start_url
    /\ start_url # 0
    /\ GetNextLinks(start_url) # <<>>

\* The crawl of C11: the start page has one link with a keyword, "How to
\* Apply", to page 2; page 2 has one link with a keyword, to page 3, whose
\* text holds a login indicator; every page answers 200, and the depth
\* reaches page 2.
HowToScenario ==
    /\ start_url = 1
    /\ max_depth >= 2
    /\ anchors[1] = HowToPage(1)
    /\ anchors[2] = HowToPage(2)
    /\ has_login[3]
    /\ url_kind[3] = "plain"
    /\ \A u \in Urls : page_status[u] = "ok"

\* C11: a crawl from a start page whose only relevant link is a "How to
\* Apply" link to an explainer page that links to a page holding "Log in"
\* returns the login page as apply_link, never the explainer page.
C11_ReturnsLoginNotExplainer ==
    (cpc = "done" /\ HowToScenario) =>
        /\ CrawlReturned.apply_link.found
        /\ CrawlReturned.apply_link.value = 3

\* C12: a page whose fetch fails is a dead end and no error: nothing is
\* extracted from it and no link of it is computed or followed; the links
\* of every page that was fetched are still all explored unless both
\* fields are found; and crawl returns, with the not-found sentinel for
\* every field that was not found.
C12_FetchFailureIsDeadEnd ==
    /\ \A k \in 1..Len(stack) :
          stack[k].phase # "enter" => page_status[stack[k].url] = "ok"
    /\ result_deadline # 0 => page_status[result_deadline] = "ok"
    /\ apply_from # 0 => page_status[apply_from] = "ok"
    /\ (cpc = "done" /\ ~BothFound) =>
          \A k \in 1..Len(visit_log) :
              (/\ page_status[visit_log[k].url] = "ok"
               /\ visit_log[k].depth < max_depth - 1) =>
                  SeqToSet(GetNextLinks(visit_log[k].url)) \subseteq visited
    /\ cpc = "done" =>
          /\ result_deadline = 0 =>
                /\ ~CrawlReturned.deadline.found
                /\ CrawlReturned.deadline.value = "N/A"
          /\ result_apply = 0 =>
                /\ ~CrawlReturned.apply_link.found
                /\ CrawlReturned.apply_link.value = "N/A"
          /\ result_deadline # 0 =>
                /\ CrawlReturned.deadline.found
                /\ CrawlReturned.deadline.value = result_deadline
          /\ result_apply # 0 =>
                /\ CrawlReturned.apply_link.found
                /\ CrawlReturned.apply_link.value = result_apply

\* A finished crawl in which the fetch of a page failed, a sibling of that
\* page was visited after it, and a field is returned as not found.
C12_Witness ==
    /\ cpc = "done"
    /\ \E i, j \in 1..Len(visit_log) :
          /\ i < j
          /\ page_status[visit_log[i].url] # "ok"
          /\ visit_log[i].depth >= 1
          /\ visit_log[j].depth = visit_log[i].depth
    /\ ~CrawlReturned.apply_link.found

\* C13: every crawl terminates, whatever the link graph (cycles and
\* self-links included) and whatever max_depth: the call stack of _dfs never
\* grows beyond max_depth frames (one frame for max_depth <= 0), and the
\* crawl reaches its return.
C13_CrawlTerminates ==
    /\ [](Len(stack) <= (IF max_depth >= 1 THEN max_depth ELSE 1))
    /\ <>(cpc = "done")

\* A finished crawl that followed a link from a page to itself and a link
\* back to the start page.
C13_Witness ==
    /\ cpc = "done"
    /\ max_depth = MaxDepth
    /\ \E k \in 1..Len(visit_log) :
          /\ visit_log[k].depth >= 1
          /\ visit_log[k].depth < max_depth - 1
          /\ page_status[visit_log[k].url] = "ok"
          /\ visit_log[k].url \in SeqToSet(GetNextLinks(visit_log[k].url))
          /\ start_url \in SeqToSet(GetNextLinks(visit_log[k].url))

\* C25: the number of pages fetched by one crawl, for a visit of the
\* search or for the validation of a candidate, is bounded by a function
\* of max_depth and FanOut alone, whatever the number of anchors of a page:
\* here by the visits allowed, each with at most FanOut validations.
C25_FetchesBoundedByDepthAndFanOut ==
    Len(fetch_log) <= (1 + FanOut) * GeomSum(FanOut, max_depth)

ValidateFetchesOf(u) ==
    {i \in 1..Len(fetch_log) :
        fetch_log[i].url = u /\ fetch_log[i].why = "validate"}

C14_DedupeIdempotent ==
    dpc = "again" => unique_again = unique_results

\* The function was applied twice to a list from which the first
\* application removed a record and kept two.
C14_Witness ==
    /\ dpc = "again"
    /\ Len(records) = 3
    /\ Len(unique_results) = 2
    /\ duplicate_count = 1

\* A name read from left to right: whitespace before the first character
\* and after the last is dropped, every other run of whitespace counts as
\* one blank.
RECURSIVE SqueezeFrom(_, _, _)
SqueezeFrom(s, out, gap) ==
    IF s = <<>> THEN out
    ELSE IF Head(s) \in Whitespace THEN SqueezeFrom(Tail(s), out, out # <<>>)
    ELSE SqueezeFrom(Tail(s),
                     (IF gap THEN Append(out, " ") ELSE out) \o <<Head(s)>>,
                     FALSE)

\* Two names differ at most in leading, trailing or runs of whitespace.
SameNameUpToWhitespace(n1, n2) ==
    SqueezeFrom(n1, <<>>, FALSE) = SqueezeFrom(n2, <<>>, FALSE)

LowerCase(s) == [k \in 1..Len(s) |-> IF s[k] = "X" THEN "x" ELSE s[k]]

\* Two links differ in the case of a letter and in nothing else.
DifferInCaseOnly(l1, l2) == l1 # l2 /\ LowerCase(l1) = LowerCase(l2)

HasNameAndLink(r) == {"name", "link"} \subseteq DOMAIN r

\* C15: with name and link as the key, no two records whose names differ
\* only in leading, trailing or runs of internal whitespace and whose links
\* are equal are both kept (of two such records in the input the first
\* alone is returned), and two records with the same name whose links
\* differ only in the case of a letter are both represented in the output.
C15_NameWhitespaceCollapsesLinkCaseKept ==
    (dpc # "start" /\ EffectiveKeyFields(key_fields) = <<"name", "link">>) =>
        /\ \A p, q \in 1..Len(unique_results) :
              (/\ p < q
               /\ HasNameAndLink(unique_results[p])
               /\ HasNameAndLink(unique_results[q])
               /\ unique_results[p]["link"] = unique_results[q]["link"]) =>
                  ~SameNameUpToWhitespace(unique_results[p]["name"],
                                          unique_results[q]["name"])
        /\ (/\ Len(records) = 2
            /\ HasNameAndLink(records[1])
            /\ HasNameAndLink(records[2])
            /\ records[1]["link"] = records[2]["link"]
            /\ SameNameUpToWhitespace(records[1]["name"], records[2]["name"]))
              => unique_results = <<records[1]>>
        /\ \A i, j \in 1..Len(records) :
              (/\ HasNameAndLink(records[i])
               /\ HasNameAndLink(records[j])
               /\ records[i]["name"] = records[j]["name"]
               /\ DifferInCaseOnly(records[i]["link"], records[j]["link"])) =>
                  \E p, q \in 1..Len(unique_results) :
                      /\ p # q
                      /\ HasNameAndLink(unique_results[p])
                      /\ HasNameAndLink(unique_results[q])
                      /\ Strip(unique_results[p]["link"]) = Strip(records[i]["link"])
                      /\ Strip(unique_results[q]["link"]) = Strip(records[j]["link"])
                      /\ SameNameUpToWhitespace(unique_results[p]["name"],
                                                records[i]["name"])
                      /\ SameNameUpToWhitespace(unique_results[q]["name"],
                                                records[j]["name"])

\* Three records were deduplicated by name and link: the second differs
\* from the first in the whitespace of the name alone and is dropped, the
\* third differs from the first in the case of the link alone and is kept.
C15_Witness ==
    /\ dpc = "deduped"
    /\ ~key_fields.given
    /\ Len(records) = 3
    /\ \A i \in 1..3 : HasNameAndLink(records[i])
    /\ records[1]["name"] # records[2]["name"]
    /\ SameNameUpToWhitespace(records[1]["name"], records[2]["name"])
    /\ records[1]["link"] = records[2]["link"]
    /\ records[3]["name"] = records[1]["name"]
    /\ DifferInCaseOnly(records[1]["link"], records[3]["link"])
    /\ unique_results = <<records[1], records[3]>>

\* The positions of the input that carry a key no earlier position carries.
FirstOfKey ==
    {i \in 1..Len(records) :
        \A j \in 1..(i - 1) :
            UniqueKey(records[j], EffectiveKeyFields(key_fields))
               # UniqueKey(records[i], EffectiveKeyFields(key_fields))}

\* The p-th smallest position of a set of positions.
NthOf(positions, p) ==
    CHOOSE i \in positions : Cardinality({j \in positions : j <= i}) = p

\* C16: the output holds, in the order of the input, exactly the records at
\* the positions that are the first of their key, each as it is in the
\* input; the count removed is len(input) - len(output); and the input is
\* left as it was.
C16_FirstOfEachKeyInOrder ==
    /\ [](dpc # "start" =>
            LET first == FirstOfKey
            IN  /\ Len(unique_results) = Cardinality(first)
                /\ \A p \in 1..Len(unique_results) :
                      unique_results[p] = records[NthOf(first, p)]
                /\ duplicate_count = Len(records) - Len(unique_results))
    /\ [][records' = records /\ key_fields' = key_fields]_vars

\* Three records of which the first and the last carry the same key, with
\* a record of another key between them, and the last is not the same
\* record as the first.
C16_Witness ==
    /\ dpc = "deduped"
    /\ Len(records) = 3
    /\ FirstOfKey = {1, 2}
    /\ records[3] # records[1]
    /\ unique_results = <<records[1], records[2]>>
    /\ duplicate_count = 1

IsTemplateRecord(r) == DOMAIN r = {"name", "site"}

\* C30: with the default key fields, two records built by
\* create_result_template that have the same program name and different
\* program links are both kept.
C30_TemplateRecordsKeyedOnLink ==
    (dpc # "start" /\ ~key_fields.given) =>
        \A i, j \in 1..Len(records) :
            (/\ i < j
             /\ IsTemplateRecord(records[i])
             /\ IsTemplateRecord(records[j])
             /\ records[i]["name"] = records[j]["name"]
             /\ records[i]["site"] # records[j]["site"]) =>
                /\ records[i] \in SeqToSet(unique_results)
                /\ records[j] \in SeqToSet(unique_results)

=============================================================================
